---- MODULE Spec2Model ----
(***************************************************************************)
(* Model of distributions/factorised.py: the Factorised distribution, its  *)
(* support constraint and the KL rule registered for two Factorised.       *)
(*                                                                         *)
(* Tensors are modelled by their trailing (event) axis only: a value is a  *)
(* sequence of elements.  Every slice in the source is `value[..., :n]` or *)
(* `value[..., n:]`, which leaves the leading axes alone.  Factors are     *)
(* vector-valued (event_shape of rank 1) or scalar-valued (rank 0).        *)
(* Sequences are 1-based here and 0-based in the source.                   *)
(* A computation that raises is a result with ok = FALSE.                  *)
(***************************************************************************)
EXTENDS Integers, Sequences, FiniteSets, TLC

VARIABLES dist, result

vars == <<dist, result>>

\* ---------------------------------------------------------------- bounds
MaxFactors == 3     \* longest factor list handed to the constructor
MaxIndices == 3     \* longest index list handed to marginal
MaxValueLen == 5    \* widest value handed to log_prob / check / partition

Elems == {0, 1}     \* the entries a value may hold

\* ------------------------------------------------- component distributions
\* The factors a caller may pass, each known by its name.  A and A2 are of
\* one family with different parameters, B is of another family and width,
\* S is scalar-valued (an empty event shape).
Factors == {"A", "A2", "B", "S"}

\* What torch reports of the factor named f.
Factor(f) ==
    CASE f = "A" -> [family |-> "normal", loc |-> 0, batch_shape |-> <<5>>,
                     event_shape |-> <<1>>, support |-> "real"]
      [] f = "A2" -> [family |-> "normal", loc |-> 1, batch_shape |-> <<5>>,
                      event_shape |-> <<1>>, support |-> "real"]
      [] f = "B" -> [family |-> "dirichlet", loc |-> 0, batch_shape |-> <<5>>,
                     event_shape |-> <<2>>, support |-> "simplex"]
      [] f = "S" -> [family |-> "normal", loc |-> 0, batch_shape |-> <<5>>,
                     event_shape |-> <<>>, support |-> "real"]

\* ------------------------------------------------------------ python/torch
Min(a, b) == IF a < b THEN a ELSE b

\* value[..., :n]: a slice end past the axis is clamped.
Take(value, n) == SubSeq(value, 1, Min(n, Len(value)))

\* value[..., n:]: a slice start past the axis gives the empty tensor.
Drop(value, n) == SubSeq(value, Min(n, Len(value)) + 1, Len(value))

\* zip(a, b): stops at the shorter argument.
Zip(a, b) == [i \in 1..Min(Len(a), Len(b)) |-> <<a[i], b[i]>>]

Ok(v) == [ok |-> TRUE, val |-> v]
Fail == [ok |-> FALSE, val |-> 0]

RECURSIVE SumFrom(_, _)
\* sum(generator): starts at 0, adds the terms left to right; the first
\* term that raises ends the sum with that failure.
SumFrom(acc, terms) ==
    IF terms = <<>> THEN Ok(acc)
    ELSE IF ~Head(terms).ok THEN Fail
    ELSE SumFrom(acc + Head(terms).val, Tail(terms))

PySum(terms) == SumFrom(0, terms)

RECURSIVE SumInts(_)
\* sum over a list of plain integers.
SumInts(ws) == IF ws = <<>> THEN 0 ELSE Head(ws) + SumInts(Tail(ws))

RECURSIVE Cat(_)
\* torch.cat(parts, dim=-1)
Cat(parts) == IF parts = <<>> THEN <<>> ELSE Head(parts) \o Cat(Tail(parts))

RECURSIVE Weight(_, _)
Weight(part, k) ==
    IF part = <<>> THEN 0 ELSE k * Head(part) + Weight(Tail(part), k + 1)

\* ----------------------------------------------------------- _iterate_parts
RECURSIVE IteratePartsNoAdvance(_, _)
IteratePartsNoAdvance(value, ndims) ==
    IF ndims = <<>> THEN <<>>
    ELSE <<Take(value, Head(ndims))>>
             \o IteratePartsNoAdvance(value, Tail(ndims))

RECURSIVE IterateParts(_, _)
\* for ndim in ndims: yield value[..., :ndim]; value = value[..., ndim:]
IterateParts(value, ndims) ==
    IF ndims = <<>> THEN <<>>
    ELSE <<Take(value, Head(ndims))>>
             \o IterateParts(Drop(value, Head(ndims)), Tail(ndims))

\* ------------------------------------------------------ factor capabilities
\* The collaborators' own operations, reached through the calls
\* factor.log_prob(part), support.check(part), kl_divergence(pf, qf) and
\* factor.rsample(shape).

\* The width of what the factor's own rsample and log_prob work on.
EventWidth(f) ==
    IF Len(Factor(f).event_shape) > 0 THEN Factor(f).event_shape[1] ELSE 1

\* A part of the wrong width is rejected by a factor that validates its
\* samples; one that does not validate broadcasts a width-1 part against its
\* parameters and fails on every other width.
FactorLogProb(f, part, validate) ==
    LET w == EventWidth(f)
        full == IF Len(part) = w THEN part ELSE [i \in 1..w |-> part[1]]
    IN IF Len(part) # w /\ (validate \/ Len(part) # 1) THEN Fail
       ELSE Ok(0 - ((2 + Factor(f).loc) * (1 + Weight(full, 1))))

\* Constraint.check of the factor's support: `real` accepts every entry,
\* `simplex` wants non-negative entries that sum to one.  No width is refused.
ConstraintCheck(support, part) ==
    IF support = "simplex"
    THEN (\A i \in 1..Len(part) : part[i] >= 0) /\ SumInts(part) = 1
    ELSE TRUE

\* kl_divergence(pf, qf): the dispatcher finds a rule only for a pair of one
\* family and one event shape; the value is zero for equal parameters and
\* not symmetric.
FactorKl(pf, qf) ==
    LET P == Factor(pf)
        Q == Factor(qf)
    IN IF P.family # Q.family \/ P.event_shape # Q.event_shape THEN Fail
       ELSE IF P.loc = Q.loc THEN Ok(0)
       ELSE Ok(1 + 2 * P.loc + Q.loc)

\* The tensors factor.rsample may return: any entries, of the factor's width.
Vec(n) == [1..n -> Elems]

RECURSIVE AllSamples(_)
AllSamples(factors) ==
    IF factors = <<>> THEN {<<>>}
    ELSE {<<s>> \o rest : s \in Vec(EventWidth(Head(factors))),
                          rest \in AllSamples(Tail(factors))}

\* ---------------------------------------------------------------- Factorised
NoDist == [live |-> FALSE, factors |-> <<>>, batch_shape |-> <<>>,
           event_shape |-> <<>>, ndims |-> <<>>]

NdimsAllOne(factors) == [i \in 1..Len(factors) |-> 1]

\* self._ndims = [factor.event_shape[0] if len(factor.event_shape) > 0 else 1
\*                for factor in self.factors]
Ndims(factors) ==
    [i \in 1..Len(factors) |->
        IF Len(Factor(factors[i]).event_shape) > 0
        THEN Factor(factors[i]).event_shape[1]
        ELSE 1]

\* Factorised.__init__.  factors[0] raises on an empty list, and
\* factor.event_shape[0] raises on a factor whose event shape is empty;
\* both happen before _ndims is computed.  arg_constraints is empty, so
\* validate_args changes nothing and is left out.
FactorisedInit(factors) ==
    IF Len(factors) = 0 THEN [ok |-> FALSE, obj |-> NoDist]
    ELSE IF \E i \in 1..Len(factors) : Len(Factor(factors[i]).event_shape) = 0
    THEN [ok |-> FALSE, obj |-> NoDist]
    ELSE [ok |-> TRUE,
          obj |-> [live |-> TRUE,
                   factors |-> factors,
                   batch_shape |-> Factor(factors[1]).batch_shape,
                   event_shape |->
                       <<SumInts([i \in 1..Len(factors) |->
                                    Factor(factors[i]).event_shape[1]])>>,
                   ndims |-> Ndims(factors)]]

MarginalReversed(self, factor_indices) ==
    FactorisedInit([k \in 1..Len(factor_indices) |->
        self.factors[factor_indices[Len(factor_indices) + 1 - k]]])

\* Factorised.marginal: Factorised([self.factors[i] for i in factor_indices])
marginal(self, factor_indices) ==
    FactorisedInit([k \in 1..Len(factor_indices) |->
                       self.factors[factor_indices[k]]])

\* Factorised.partition_dimensions
partition_dimensions(self, data) == IterateParts(data, self.ndims)

log_probReversedParts(self, value, validate) ==
    LET parts == partition_dimensions(self, value)
        n == Min(Len(self.factors), Len(parts))
    IN PySum([i \in 1..n |->
                FactorLogProb(self.factors[i], parts[n + 1 - i], validate)])

\* Factorised.log_prob
log_prob(self, value, validate) ==
    LET pairs == Zip(self.factors, partition_dimensions(self, value))
    IN PySum([i \in 1..Len(pairs) |->
                FactorLogProb(pairs[i][1], pairs[i][2], validate)])

rsampleReversed(self, samples) ==
    Cat([i \in 1..Len(samples) |-> samples[Len(samples) + 1 - i]])

\* Factorised.rsample, given what each factor.rsample returned, in factor
\* order.
rsample(self, samples) == Cat(samples)

\* Factorised.support
support(self) ==
    [supports |-> [i \in 1..Len(self.factors) |->
                      Factor(self.factors[i]).support],
     ndims |-> self.ndims]

checkCrossed(sup, value) ==
    LET parts == IterateParts(value, sup.ndims)
        n == Min(Len(sup.supports), Len(parts))
    IN \A i \in 1..n : ConstraintCheck(sup.supports[n + 1 - i], parts[i])

\* _FactorisedSupport.check
check(sup, value) ==
    LET pairs == Zip(sup.supports, IterateParts(value, sup.ndims))
    IN \A i \in 1..Len(pairs) : ConstraintCheck(pairs[i][1], pairs[i][2])

klSkipFirst(p, q) ==
    LET pairs == Zip(p.factors, q.factors)
    IN PySum([i \in 1..(Len(pairs) - 1) |->
                FactorKl(pairs[i + 1][1], pairs[i + 1][2])])

\* _kl_factorised_factorised
kl_factorised_factorised(p, q) ==
    LET pairs == Zip(p.factors, q.factors)
    IN PySum([i \in 1..Len(pairs) |-> FactorKl(pairs[i][1], pairs[i][2])])

\* ------------------------------------------------------------- the caller
\* dist: the Factorised object the caller holds (NoDist before the first).
\* result: the call the caller has just made, with its arguments and what it
\* returned; NoResult between calls.  recv is the object a method was called
\* on (for kl: the first argument), ret the object returned (for kl: the
\* second argument).
NoResult == [op |-> "none", factors |-> <<>>, indices |-> <<>>,
             value |-> <<>>, ok |-> TRUE, num |-> 0, flag |-> FALSE,
             parts |-> <<>>, recv |-> NoDist, ret |-> NoDist]

FactorLists == UNION {[1..n -> Factors] : n \in 0..MaxFactors}
Values == UNION {Vec(n) : n \in 0..MaxValueLen}
IndexLists(self) ==
    UNION {[1..n -> 1..Len(self.factors)] : n \in 0..MaxIndices}

Init ==
    /\ dist = NoDist
    /\ result = NoResult

\* The caller is between calls.
Idle == result.op = "none"

\* The last call returned a Factorised object.
Returned == result.op \in {"construct", "marginal"} /\ result.ok

\* Factorised(factors)
Construct(factors) ==
    LET r == FactorisedInit(factors)
    IN /\ Idle
       /\ result' = [NoResult EXCEPT !.op = "construct",
                        !.factors = factors, !.ok = r.ok, !.ret = r.obj]
       /\ UNCHANGED dist

\* dist.marginal(indices)
Marginal(indices) ==
    LET r == marginal(dist, indices)
    IN /\ Idle
       /\ dist.live
       /\ result' = [NoResult EXCEPT !.op = "marginal",
                        !.indices = indices, !.ok = r.ok,
                        !.recv = dist, !.ret = r.obj]
       /\ UNCHANGED dist

\* The caller keeps the object just returned as its distribution.
Adopt ==
    /\ Returned
    /\ dist' = result.ret
    /\ result' = NoResult

\* dist.log_prob(value)
LogProb(value, validate) ==
    LET r == log_prob(dist, value, validate)
    IN /\ Idle
       /\ dist.live
       /\ result' = [NoResult EXCEPT !.op = "log_prob", !.value = value,
                        !.ok = r.ok, !.num = r.val, !.recv = dist]
       /\ UNCHANGED dist

\* dist.support.check(value)
Check(value) ==
    /\ Idle
    /\ dist.live
    /\ result' = [NoResult EXCEPT !.op = "check", !.value = value,
                     !.flag = check(support(dist), value), !.recv = dist]
    /\ UNCHANGED dist

\* list(dist.partition_dimensions(value))
Partition(value) ==
    /\ Idle
    /\ dist.live
    /\ result' = [NoResult EXCEPT !.op = "partition", !.value = value,
                     !.parts = partition_dimensions(dist, value),
                     !.recv = dist]
    /\ UNCHANGED dist

\* dist.rsample(), the factors' own draws being `samples`
Rsample(samples) ==
    /\ Idle
    /\ dist.live
    /\ result' = [NoResult EXCEPT !.op = "rsample", !.parts = samples,
                     !.value = rsample(dist, samples), !.recv = dist]
    /\ UNCHANGED dist

\* kl_divergence between the caller's distribution and the object just
\* returned, in either order.
Kl(swap) ==
    LET p == IF swap THEN result.ret ELSE dist
        q == IF swap THEN dist ELSE result.ret
        r == kl_factorised_factorised(p, q)
    IN /\ Returned
       /\ dist.live
       /\ result' = [NoResult EXCEPT !.op = "kl", !.ok = r.ok,
                        !.num = r.val, !.recv = p, !.ret = q]
       /\ UNCHANGED dist

\* The caller is done with the returned value and moves on.
Return ==
    /\ ~Idle
    /\ result' = NoResult
    /\ UNCHANGED dist

Next ==
    \/ \E factors \in FactorLists : Construct(factors)
    \/ \E indices \in IndexLists(dist) : Marginal(indices)
    \/ Adopt
    \/ \E value \in Values, validate \in BOOLEAN : LogProb(value, validate)
    \/ \E value \in Values : Check(value)
    \/ \E value \in Values : Partition(value)
    \/ \E samples \in AllSamples(dist.factors) : Rsample(samples)
    \/ \E swap \in BOOLEAN : Kl(swap)
    \/ Return

Spec == Init /\ [][Next]_vars

\* ------------------------------------------------------------------ claims
\* The statements are written from offsets and index sets, not from the
\* prefix-splitting generator or zip.

RECURSIVE SumOver(_, _)
\* The sum of F[i] over the indices i in S.
SumOver(F, S) ==
    IF S = {} THEN 0
    ELSE LET i == CHOOSE j \in S : TRUE IN F[i] + SumOver(F, S \ {i})

\* Where factor i's slice starts (0-based offset): w[1] + ... + w[i-1].
Offset(w, i) == SumOver(w, 1..(i - 1))

\* The contiguous slice of v that belongs to factor i.
SliceOf(v, w, i) == SubSeq(v, Offset(w, i) + 1, Offset(w, i) + w[i])

\* The value has the trailing width the receiver's event_shape states.
RightWidth == Len(result.value) = result.recv.event_shape[1]

\* C1: log_prob of a value of the right trailing width is the sum over the
\* factors of factor i's log_prob on the slice of width w[i] at offset
\* w[1] + ... + w[i-1].
C1_LogProbSumOfSlices ==
    (result.op = "log_prob" /\ RightWidth) =>
        LET d == result.recv
            n == Len(d.factors)
            terms == [i \in 1..n |->
                        FactorLogProb(d.factors[i],
                                      SliceOf(result.value, d.ndims, i), TRUE)]
        IN /\ \A i \in 1..n : terms[i].ok
           /\ result.ok
           /\ result.num = SumOver([i \in 1..n |-> terms[i].val], 1..n)

C1_Witness ==
    /\ result.op = "log_prob" /\ RightWidth /\ result.ok
    /\ result.recv.ndims = <<1, 2>>
    /\ result.value = <<1, 0, 1>>

\* C2: for factor lists of equal length n, the divergence of p and q is the
\* sum over every index i of the divergence of p.factors[i] and
\* q.factors[i]; it fails exactly when one of those n pairs has no divergence.
C2_KlSumOfPairs ==
    (result.op = "kl" /\ Len(result.recv.factors) = Len(result.ret.factors)) =>
        LET n == Len(result.recv.factors)
            terms == [i \in 1..n |->
                        FactorKl(result.recv.factors[i], result.ret.factors[i])]
        IN IF \A i \in 1..n : terms[i].ok
           THEN /\ result.ok
                /\ result.num = SumOver([i \in 1..n |-> terms[i].val], 1..n)
           ELSE ~result.ok

C2_Witness ==
    /\ result.op = "kl" /\ result.ok
    /\ result.recv.factors = <<"A", "A2">>
    /\ result.ret.factors = <<"A2", "A">>
    /\ result.num = 5

\* C3: the slices partition_dimensions yields for a value of the right
\* trailing width are as many as the factors and concatenate back to the
\* value.
C3_PartitionRoundTrip ==
    (result.op = "partition" /\ RightWidth) =>
        /\ Len(result.parts) = Len(result.recv.factors)
        /\ Cat(result.parts) = result.value

C3_Witness ==
    /\ result.op = "partition" /\ RightWidth
    /\ result.recv.ndims = <<2, 1>>
    /\ result.parts = <<<<0, 1>>, <<1>>>>

\* The objects that exist: the caller's, and those the last call touched.
Instances == {d \in {dist, result.recv, result.ret} : d.live}

\* C4: in every constructed Factorised, directly or through marginal,
\* the size of event_shape is the sum of the cached widths.
C4_WidthSum ==
    \A d \in Instances :
        /\ Len(d.event_shape) = 1
        /\ Len(d.ndims) = Len(d.factors)
        /\ d.event_shape[1] = SumOver(d.ndims, 1..Len(d.ndims))

C4_Witness ==
    /\ result.op = "marginal" /\ result.ok
    /\ result.ret.ndims = <<2, 1, 2>>
    /\ result.ret.event_shape = <<5>>

\* What marginal(indices) is to return, and leave alone.
MarginalAsStated ==
    LET sel == [k \in 1..Len(result.indices) |->
                  result.recv.factors[result.indices[k]]]
    IN /\ result.ok
       /\ result.ret.live
       /\ result.ret.factors = sel
       /\ result.ret.ndims = [k \in 1..Len(sel) |-> EventWidth(sel[k])]
       /\ dist = result.recv

\* C5 as stated: marginal(indices) returns, for any sequence of valid
\* indices, a new Factorised over exactly the selected factors in the given
\* order, with their widths; the receiver is unchanged.
C5_MarginalAnyIndices == result.op = "marginal" => MarginalAsStated

\* C5 amended: the same for every non-empty sequence of valid indices; for
\* the empty sequence marginal raises and the receiver is unchanged.
C5_MarginalNonEmpty ==
    result.op = "marginal" =>
        IF result.indices # <<>> THEN MarginalAsStated
        ELSE ~result.ok /\ dist = result.recv

C5_Witness ==
    /\ result.op = "marginal" /\ result.ok
    /\ result.recv.factors = <<"A", "B">>
    /\ result.indices = <<2, 2, 1>>
    /\ result.ret.factors = <<"B", "B", "A">>

C8_ConstructWithScalar ==
    (result.op = "construct" /\ Len(result.factors) >= 1) =>
        LET fs == result.factors
            w == [i \in 1..Len(fs) |->
                    IF Factor(fs[i]).event_shape = <<>> THEN 1
                    ELSE Factor(fs[i]).event_shape[1]]
        IN /\ result.ok
           /\ result.ret.ndims = w
           /\ result.ret.event_shape = <<SumOver(w, 1..Len(fs))>>

\* C9: the divergence of two Factorised whose factor lists differ in length
\* fails; no value is returned.
C9_KlLengthMismatchFails ==
    (result.op = "kl" /\ Len(result.recv.factors) # Len(result.ret.factors))
        => ~result.ok

\* C10: log_prob or the support check of a value whose trailing width is
\* not the summed event width fails; no result is returned.
C10_WrongWidthFails ==
    (result.op \in {"log_prob", "check"} /\ ~RightWidth) => ~result.ok

====
